---- MODULE Spec2Model ----
(***************************************************************************)
(* A model of runscan.py, the command line client of the scan API.         *)
(*                                                                         *)
(* One run of domain() is a state machine over pc.  Every HTTP request is  *)
(* one step whose response is chosen by the environment; every request and *)
(* every write to stdout/stderr is appended to a log tagged with the       *)
(* function that issued it.  Timestamps (utcnow) and the pass-through      *)
(* options mincvss/nooutput/noverify are not modelled.                     *)
(***************************************************************************)
EXTENDS Integers, Sequences, FiniteSets, TLC

VARIABLES
    pc,         \* position of the run inside domain() and its callees
    args,       \* the parsed command line (argparse namespace)
    env,        \* which environment variables are set
    subnetsfile,\* lines of the file named by --filter-subnets
    scandoc,    \* the result document the scan service holds for the scan
    filters,    \* domain(): filters
    targets,    \* domain(): the filtered target list
    scanid,     \* the scan id in use
    polls,      \* number of follow-mode polls made so far
    content,    \* get_results: resp / ScanAPIServices._content
    idx,        \* execute_indicators: position in results.details
    respmap,    \* execute_ownership: respmap
    events,     \* ScanAPIMozDef._events
    eidx,       \* ScanAPIMozDef.post: position in _events
    net,        \* every HTTP request made, in order, with its response
    stdout,     \* everything written to sys.stdout, in order
    stderr,     \* everything written to sys.stderr, in order
    exitcode    \* process exit status (-1 while running)

vars == <<pc, args, env, subnetsfile, scandoc, filters, targets, scanid, polls,
          content, idx, respmap, events, eidx, net, stdout, stderr, exitcode>>

-----------------------------------------------------------------------------
(* Bounds of the model.                                                    *)

MaxTargets == 2
MaxFilters == 2
MaxVulns == 3
MaxHosts == 2
MaxPolls == 2

-----------------------------------------------------------------------------
(* Generic helpers.                                                        *)

SeqsUpTo(S, n) == UNION {[1..k -> S] : k \in 0..n}

Range(s) == {s[i] : i \in DOMAIN s}

RECURSIVE SelectIdx(_, _, _)

Perms(n) == {p \in [1..n -> 1..n] : \A i, j \in 1..n : p[i] = p[j] => i = j}

\* the elements s[j], j >= i and j in keep, in the order of s
SelectIdx(s, keep, i) ==
    IF i > Len(s) THEN <<>>
    ELSE IF i \in keep THEN <<s[i]>> \o SelectIdx(s, keep, i + 1)
    ELSE SelectIdx(s, keep, i + 1)

-----------------------------------------------------------------------------
(* netaddr: IPAddress(t) and IPNetwork(i) on the strings of the model.     *)
(* Addresses are IPv4 addresses of 0.0.0.0/30, held as integers.           *)

AddrBits == 32
AddrFormatError == -1

IPAddress(t) ==
    CASE t = "0.0.0.0" -> 0
      [] t = "0.0.0.1" -> 1
      [] t = "0.0.0.2" -> 2
      [] t = "0.0.0.3" -> 3
      [] OTHER -> AddrFormatError

\* int() of a prefix length string
PrefixLen(s) ==
    CASE s = "30" -> 30
      [] s = "31" -> 31
      [] s = "32" -> 32
      [] s = "33" -> 33
      [] OTHER -> -1

\* A line of the subnets file is held as the two halves of "addr/prefix".
\* IPNetwork(i) raises AddrFormatError when either half does not parse.
NetworkOk(i) ==
    /\ IPAddress(i.addr) # AddrFormatError
    /\ PrefixLen(i.prefix) >= 0
    /\ PrefixLen(i.prefix) <= AddrBits

Pow2(n) == 2 ^ n

\* ip in IPNetwork(i): the address shares the network's leading prefix bits
InNetwork(ip, i) ==
    LET hostbits == AddrBits - PrefixLen(i.prefix)
    IN  ip \div Pow2(hostbits) = IPAddress(i.addr) \div Pow2(hostbits)

RECURSIVE FilterLoop(_, _, _)
\* the for loop of target_filter from position k: "true", "false" or "raise"
FilterLoop(ip, fs, k) ==
    IF k > Len(fs) THEN "false"
    ELSE IF ~NetworkOk(fs[k]) THEN "raise"
    ELSE IF InNetwork(ip, fs[k]) THEN "true"
    ELSE FilterLoop(ip, fs, k + 1)

\* target_filter, had the loop returned after its first iteration
FirstOnlyFilter(t, fs) ==
    IF IPAddress(t) = AddrFormatError THEN "false"
    ELSE IF fs = <<>> THEN "false"
    ELSE IF ~NetworkOk(fs[1]) THEN "raise"
    ELSE IF InNetwork(IPAddress(t), fs[1]) THEN "true" ELSE "false"

target_filter(t, fs) ==
    IF IPAddress(t) = AddrFormatError THEN "false"
    ELSE FilterLoop(IPAddress(t), fs, 1)

\* the list comprehension of domain(): "raise" when any call raises
FilteredTargets(ts, fs) ==
    IF \E k \in DOMAIN ts : target_filter(ts[k], fs) = "raise"
    THEN [raised |-> TRUE, kept |-> <<>>]
    ELSE [raised |-> FALSE,
          kept |-> SelectIdx(ts, {k \in DOMAIN ts : target_filter(ts[k], fs) = "false"}, 1)]

\* load_subnet_filters: the lines as read, or [] without a path
LoadedFilters(path, lines) == IF path = "None" THEN <<>> ELSE lines

-----------------------------------------------------------------------------
(* Result documents.                                                       *)

Vuln(n, r) == [name |-> n, risk |-> r]

HostResult(h, ip, vs, c) ==
    [hostname |-> h, ipaddress |-> ip, os |-> "linux", vulnerabilities |-> vs,
     scan_start |-> "t0", scan_end |-> "t1", credentialed_checks |-> c]

Document(ds) == [results |-> [zone |-> "dmz", details |-> ds]]

Details(doc) == doc.results.details

-----------------------------------------------------------------------------
(* ScanAPIServices.execute_indicators: the per-host classification.        *)

NewDetails == [maximum |-> 0, high |-> 0, medium |-> 0, low |-> 0, coverage |-> FALSE]

\* tv of one vulnerability entry
RiskLevel(v) ==
    CASE v.risk = "critical" -> 4
      [] v.risk = "high" -> 3
      [] v.risk = "medium" -> 2
      [] v.risk = "low" -> 1
      [] OTHER -> 0

\* the bucket of details an entry's branch increments ("none": the else branch)
RiskBucket(v) ==
    CASE v.risk = "critical" -> "maximum"
      [] v.risk = "high" -> "high"
      [] v.risk = "medium" -> "medium"
      [] v.risk = "low" -> "low"
      [] OTHER -> "none"

Counted(acc, v) ==
    IF RiskBucket(v) # "none" /\ v.name \notin Range(acc.seentitles)
    THEN [acc.details EXCEPT ![RiskBucket(v)] = @ + 1]
    ELSE acc.details

\* Classify, had the name check also guarded the level update
ClassifyDedupLevel(acc, v) ==
    [level |-> IF RiskLevel(v) > acc.level /\ v.name \notin Range(acc.seentitles)
               THEN RiskLevel(v) ELSE acc.level,
     seentitles |-> Append(acc.seentitles, v.name),
     details |-> Counted(acc, v)]

\* Classify, had seentitles.append sat inside the four counting branches
ClassifySeenWhenCounted(acc, v) ==
    [level |-> IF RiskLevel(v) > acc.level THEN RiskLevel(v) ELSE acc.level,
     seentitles |-> IF RiskBucket(v) # "none" THEN Append(acc.seentitles, v.name)
                    ELSE acc.seentitles,
     details |-> Counted(acc, v)]

\* one iteration of "for v in x['vulnerabilities']"
Classify(acc, v) ==
    [level |-> IF RiskLevel(v) > acc.level THEN RiskLevel(v) ELSE acc.level,
     seentitles |-> Append(acc.seentitles, v.name),
     details |-> Counted(acc, v)]

RECURSIVE ScanVulns(_, _, _)
ScanVulns(vs, k, acc) ==
    IF k > Len(vs) THEN acc ELSE ScanVulns(vs, k + 1, Classify(acc, vs[k]))

Likelihood(level) ==
    CASE level = 4 -> "maximum"
      [] level = 3 -> "high"
      [] level = 2 -> "medium"
      [] OTHER -> "low"

\* the indicator record posted for host entry x
Indicator(x, zone) ==
    LET acc == ScanVulns(x.vulnerabilities, 1,
                         [level |-> 1, seentitles |-> <<>>, details |-> NewDetails])
    IN  [asset_type |-> "hostname",
         asset_identifier |-> x.hostname,
         zone |-> zone,
         description |-> "scanapi vulnerability result",
         event_source_name |-> "scanapi",
         likelihood_indicator |->
             IF x.credentialed_checks THEN Likelihood(acc.level) ELSE "unknown",
         details |->
             IF x.credentialed_checks THEN [acc.details EXCEPT !.coverage = TRUE]
             ELSE acc.details]

-----------------------------------------------------------------------------
(* ScanAPIServices.execute_ownership and ScanAPIMozDef._parse_result.      *)

UnsetOwner == [operator |-> "unset", team |-> "unset", triagekey |-> "unset-unset"]

\* the owner object written into a host entry from a respmap value
OwnerObject(r) == [operator |-> r.operator, team |-> r.team, v2bkey |-> r.triagekey]

WithOwner(x, o) ==
    [f \in (DOMAIN x) \cup {"owner"} |-> IF f = "owner" THEN o ELSE x[f]]

\* the annotation, had it stopped at the first entry of each hostname
AnnotatedFirst(ds, rm) ==
    [y \in DOMAIN ds |->
        IF \A z \in 1..(y - 1) : ds[z].hostname # ds[y].hostname
        THEN WithOwner(ds[y], OwnerObject(rm[ds[y].hostname]))
        ELSE ds[y]]

\* the second loop of execute_ownership over the whole details list
Annotated(ds, rm) ==
    [y \in DOMAIN ds |->
        IF ds[y].hostname \in DOMAIN rm
        THEN WithOwner(ds[y], OwnerObject(rm[ds[y].hostname]))
        ELSE ds[y]]

Asset(result) ==
    LET a == [hostname |-> result.hostname, ipaddress |-> result.ipaddress,
              os |-> result.os]
    IN  IF "owner" \in DOMAIN result
        THEN [f \in {"hostname", "ipaddress", "os", "owner"} |->
                 IF f = "owner" THEN result.owner ELSE a[f]]
        ELSE a

parse_result(result, zone) ==
    [description |-> "scanapi runscan mozdef emitter",
     sourcename |-> "scanapi",
     zone |-> zone,
     version |-> 2,
     asset |-> Asset(result),
     vulnerabilities |-> result.vulnerabilities,
     scan_start |-> result.scan_start,
     scan_end |-> result.scan_end,
     credentialed_checks |-> result.credentialed_checks]

\* ParsedEvents, had the events been keyed by hostname
ParsedEventsByHost(resp) ==
    LET ds == Details(resp)
        first == {k \in DOMAIN ds : \A j \in 1..(k - 1) : ds[j].hostname # ds[k].hostname}
        kept == SelectIdx(ds, first, 1)
    IN  [k \in DOMAIN kept |-> parse_result(kept[k], resp.results.zone)]

\* ScanAPIMozDef.__init__: one event per entry of details, in order
ParsedEvents(resp) ==
    [k \in DOMAIN Details(resp) |-> parse_result(Details(resp)[k], resp.results.zone)]

-----------------------------------------------------------------------------
(* Inputs of a run.                                                        *)

NoArgs ==
    [P |-> FALSE, r |-> "None", D |-> "None", s |-> <<>>, p |-> "None",
     f |-> FALSE, csv |-> FALSE, serviceapi |-> "None", mozdef |-> "None",
     filter_subnets |-> "None"]

FetchOptions ==
    [csv : BOOLEAN, serviceapi : {"None", "https://sapi"},
     mozdef : {"None", "stdout", "https://mozdef"}]

WithFetch(a, o) ==
    [a EXCEPT !.csv = o.csv, !.serviceapi = o.serviceapi, !.mozdef = o.mozdef]

PurgeArgs == {"0", "299", "300", "301", "soon"}

\* int(seconds) of purge_scans; -1 stands for ValueError
IntOf(d) ==
    CASE d = "0" -> 0
      [] d = "299" -> 299
      [] d = "300" -> 300
      [] d = "301" -> 301
      [] OTHER -> -1

TargetStrings == {"0.0.0.1", "0.0.0.2", "0.0.0.3", "web.example.com"}

\* lines of a subnets file: six subnets of 0.0.0.0/30, a prefix length out of
\* range and a line that is no address
FilterLines ==
    [addr : {"0.0.0.0", "0.0.0.2"}, prefix : {"30", "31", "32"}]
    \cup {[addr |-> "0.0.0.0", prefix |-> "33"], [addr |-> "bogus", prefix |-> "31"]}

ServerPolicies == {"default"}

\* the command lines of a whole run: at most one of -P, -r, -D, -s
ArgVectors ==
    {NoArgs, [NoArgs EXCEPT !.P = TRUE]}
    \cup {[NoArgs EXCEPT !.D = d] : d \in PurgeArgs}
    \cup {WithFetch([NoArgs EXCEPT !.r = "scan0"], o) : o \in FetchOptions}
    \cup {[NoArgs EXCEPT !.s = <<"0.0.0.1", "web.example.com">>, !.p = p,
                         !.filter_subnets = fp] :
             p \in {"None", "default", "nosuch"}, fp \in {"None", "subnets.txt"}}
    \cup {WithFetch([NoArgs EXCEPT !.s = <<"0.0.0.1", "web.example.com">>,
                                   !.p = "default", !.f = TRUE], o) :
             o \in FetchOptions}

LightHosts ==
    {HostResult("h1", "10.0.0.1", <<Vuln("A", "high")>>, TRUE),
     HostResult("h1", "10.0.0.2", <<>>, FALSE),
     HostResult("h2", "10.0.0.3", <<Vuln("A", "low"), Vuln("A", "critical")>>, TRUE)}

ScanDocs == {Document(ds) : ds \in SeqsUpTo(LightHosts, MaxHosts)}

\* the documents the service may hold for command line a
DocsFor(a) ==
    IF a.r # "None" THEN ScanDocs
    ELSE IF a.f THEN {Document(<<x>>) : x \in LightHosts}
    ELSE {Document(<<>>)}

\* the environments that make a difference to command line a
EnvsFor(a) ==
    {e \in [SCANAPI : BOOLEAN, SERVICEAPIKEY : BOOLEAN] :
        /\ ~e.SCANAPI => (a = NoArgs /\ ~e.SERVICEAPIKEY)
        /\ e.SERVICEAPIKEY => a.serviceapi # "None"}

Owners ==
    {[operator |-> "opsA", team |-> "teamA", triagekey |-> "opsA-teamA"],
     [operator |-> "opsB", team |-> "teamB", triagekey |-> "opsB-teamB"]}

EmptyMap == [h \in {} |-> UnsetOwner]

\* a request: the function that made it, the call it made, and the response
Entry(by, call, method, ep, data, status, body) ==
    [by |-> by, call |-> call, method |-> method, ep |-> ep, data |-> data,
     status |-> status, body |-> body]

Line(by, text) == [by |-> by, text |-> text]

Traceback == Line("python", "Traceback")

TypeOK ==
    /\ pc \in {"domain", "get_policies", "purge_scans", "load_subnet_filters",
               "target_filter", "run_scan", "start_scan", "follow", "sleep",
               "get_results", "get_results_csv", "get_results_fetch",
               "execute_indicators", "execute_ownership", "get_results_output",
               "post", "exit", "done", "aborted"}
    /\ exitcode \in {-1, 0, 1}
    /\ polls \in 0..(MaxPolls + 1)

Init ==
    /\ pc = "domain"
    /\ args \in ArgVectors
    /\ env \in EnvsFor(args)
    /\ subnetsfile \in IF args.filter_subnets = "None" THEN {<<>>}
                       ELSE {<<>>, <<[addr |-> "0.0.0.0", prefix |-> "31"]>>,
                             <<[addr |-> "bogus", prefix |-> "31"]>>}
    /\ scandoc \in DocsFor(args)
    /\ filters = <<>>
    /\ targets = <<>>
    /\ scanid = "None"
    /\ polls = 0
    /\ content = Document(<<>>)
    /\ idx = 1
    /\ respmap = EmptyMap
    /\ events = <<>>
    /\ eidx = 1
    /\ net = <<>>
    /\ stdout = <<>>
    /\ stderr = <<>>
    /\ exitcode = -1

inputs == <<args, env, subnetsfile, scandoc>>

-----------------------------------------------------------------------------
(* The run.  An uncaught exception ends the interpreter with a traceback   *)
(* and exit status 1.                                                      *)

Raise ==
    /\ pc' = "aborted"
    /\ exitcode' = 1
    /\ stderr' = Append(stderr, Traceback)

SysExit1(by, text) ==
    /\ pc' = "done"
    /\ exitcode' = 1
    /\ stderr' = Append(stderr, Line(by, text))

\* domain(): config_from_env and the dispatch on the arguments
domain ==
    /\ pc = "domain"
    /\ IF ~env.SCANAPI
       THEN SysExit1("config_from_env", "Error: environment variable not found")
            /\ UNCHANGED <<stdout, scanid>>
       ELSE IF args.P
       THEN pc' = "get_policies" /\ UNCHANGED <<stdout, stderr, exitcode, scanid>>
       ELSE IF args.r # "None"
       THEN pc' = "get_results" /\ scanid' = args.r
            /\ UNCHANGED <<stdout, stderr, exitcode>>
       ELSE IF args.D # "None"
       THEN pc' = "purge_scans" /\ UNCHANGED <<stdout, stderr, exitcode, scanid>>
       ELSE IF args.s # <<>>
       THEN IF args.p = "None"
            THEN SysExit1("domain", "Error: policy must be specified with -p")
                 /\ UNCHANGED <<stdout, scanid>>
            ELSE pc' = "load_subnet_filters"
                 /\ UNCHANGED <<stdout, stderr, exitcode, scanid>>
       ELSE /\ stdout' = Append(stdout, Line("domain", "Must specify something to do"))
            /\ pc' = "done"
            /\ exitcode' = 1
            /\ UNCHANGED <<stderr, scanid>>
    /\ UNCHANGED <<inputs, filters, targets, polls, content, idx, respmap, events,
                   eidx, net>>

get_policies ==
    /\ pc = "get_policies"
    /\ \E status \in {200, 500} :
          /\ net' = Append(net, Entry("get_policies", "request_policies", "get", "policies",
                                      "", status, ""))
          /\ IF status = 200
             THEN /\ stdout' = Append(stdout, Line("get_policies", "policies"))
                  /\ pc' = "exit"
                  /\ UNCHANGED <<stderr, exitcode>>
             ELSE Raise /\ UNCHANGED stdout
    /\ UNCHANGED <<inputs, filters, targets, scanid, polls, content, idx, respmap,
                   events, eidx>>

\* purge_scans and ScanAPIRequestor.purge_scans
purge_scans ==
    /\ pc = "purge_scans"
    /\ IF IntOf(args.D) = -1
       THEN Raise /\ UNCHANGED <<net, stdout>>
       ELSE \E status \in {200, 500} :
               /\ net' = Append(net, Entry("purge_scans", "purge_scans", "delete",
                                           "scan/purge", IntOf(args.D), status, ""))
               /\ IF status = 200
                  THEN /\ stdout' = Append(stdout, Line("purge_scans", "json"))
                       /\ pc' = "exit"
                       /\ UNCHANGED <<stderr, exitcode>>
                  ELSE Raise /\ UNCHANGED stdout
    /\ UNCHANGED <<inputs, filters, targets, scanid, polls, content, idx, respmap,
                   events, eidx>>

\* domain(): the target list and load_subnet_filters
load_subnet_filters ==
    /\ pc = "load_subnet_filters"
    /\ targets' = args.s
    /\ filters' = LoadedFilters(args.filter_subnets, subnetsfile)
    /\ pc' = "target_filter"
    /\ UNCHANGED <<inputs, scanid, polls, content, idx, respmap, events, eidx, net,
                   stdout, stderr, exitcode>>

\* domain(): targets = [x for x in targets if not target_filter(x, filters)]
filter_targets ==
    /\ pc = "target_filter"
    /\ IF FilteredTargets(targets, filters).raised
       THEN Raise /\ UNCHANGED targets
       ELSE /\ targets' = FilteredTargets(targets, filters).kept
            /\ pc' = "run_scan"
            /\ UNCHANGED <<stderr, exitcode>>
    /\ UNCHANGED <<inputs, filters, scanid, polls, content, idx, respmap, events,
                   eidx, net, stdout>>

\* run_scan: the policy check
run_scan ==
    /\ pc = "run_scan"
    /\ \E status \in {200, 500} :
          /\ net' = Append(net, Entry("run_scan", "request_policies", "get", "policies",
                                      "", status, ""))
          /\ IF status # 200 THEN Raise
             ELSE IF args.p \notin ServerPolicies
             THEN SysExit1("run_scan", "Error: policy not found")
             ELSE pc' = "start_scan" /\ UNCHANGED <<stderr, exitcode>>
    /\ UNCHANGED <<inputs, filters, targets, scanid, polls, content, idx, respmap,
                   events, eidx, stdout>>

\* run_scan: start_scan, and domain()'s branch on -f
start_scan ==
    /\ pc = "start_scan"
    /\ \E status \in {200, 500} :
          /\ net' = Append(net, Entry("run_scan", "start_scan", "post", "scan",
                                      targets, status, ""))
          /\ IF status # 200 THEN Raise /\ UNCHANGED <<scanid, stdout>>
             ELSE /\ scanid' = "scan1"
                  /\ IF args.f THEN pc' = "follow" /\ UNCHANGED stdout
                     ELSE /\ stdout' = Append(stdout, Line("domain", "scan1"))
                          /\ pc' = "exit"
                  /\ UNCHANGED <<stderr, exitcode>>
    /\ UNCHANGED <<inputs, filters, targets, polls, content, idx, respmap, events,
                   eidx>>

\* follow, had the loop condition been dropped
follow_once ==
    /\ pc = "follow"
    /\ polls < MaxPolls
    /\ \E completed \in BOOLEAN :
          /\ net' = Append(net, Entry("domain", "request_scan_completed", "get", "scan/results",
                                      scanid, 200, completed))
          /\ polls' = polls + 1
          /\ pc' = "get_results"
    /\ UNCHANGED <<inputs, filters, targets, scanid, content, idx, respmap, events,
                   eidx, stdout, stderr, exitcode>>

\* domain(): while not requestor.request_scan_completed(scanid)
follow ==
    /\ pc = "follow"
    /\ polls < MaxPolls
    /\ \E status \in {200, 500}, completed \in BOOLEAN :
          /\ net' = Append(net, Entry("domain", "request_scan_completed", "get", "scan/results",
                                      scanid, status, completed))
          /\ polls' = polls + 1
          /\ IF status # 200 THEN Raise
             ELSE /\ pc' = IF completed THEN "get_results" ELSE "sleep"
                  /\ UNCHANGED <<stderr, exitcode>>
    /\ UNCHANGED <<inputs, filters, targets, scanid, content, idx, respmap, events,
                   eidx, stdout>>

\* domain(): time.sleep(15)
sleep ==
    /\ pc = "sleep"
    /\ pc' = "follow"
    /\ UNCHANGED <<inputs, filters, targets, scanid, polls, content, idx, respmap,
                   events, eidx, net, stdout, stderr, exitcode>>

\* get_results, had the incomplete branch lacked its return
get_results_no_return ==
    /\ pc = "get_results"
    /\ IF args.serviceapi # "None" /\ ~env.SERVICEAPIKEY
       THEN SysExit1("get_results", "Error: SERVICEAPIKEY not found in environment")
            /\ UNCHANGED <<net, stdout>>
       ELSE \E status \in {200, 500}, completed \in BOOLEAN :
               /\ net' = Append(net, Entry("get_results", "request_scan_completed", "get",
                                           "scan/results", scanid, status, completed))
               /\ IF status # 200 THEN Raise /\ UNCHANGED stdout
                  ELSE /\ stdout' = IF completed THEN stdout
                                    ELSE Append(stdout, Line("get_results", "Scan incomplete"))
                       /\ pc' = IF args.csv THEN "get_results_csv" ELSE "get_results_fetch"
                       /\ UNCHANGED <<stderr, exitcode>>
    /\ UNCHANGED <<inputs, filters, targets, scanid, polls, content, idx, respmap,
                   events, eidx>>

\* get_results: the SERVICEAPIKEY check and the completion check
get_results ==
    /\ pc = "get_results"
    /\ IF args.serviceapi # "None" /\ ~env.SERVICEAPIKEY
       THEN SysExit1("get_results", "Error: SERVICEAPIKEY not found in environment")
            /\ UNCHANGED <<net, stdout>>
       ELSE \E status \in {200, 500}, completed \in BOOLEAN :
               /\ net' = Append(net, Entry("get_results", "request_scan_completed", "get",
                                           "scan/results", scanid, status, completed))
               /\ IF status # 200 THEN Raise /\ UNCHANGED stdout
                  ELSE IF ~completed
                  THEN /\ stdout' = Append(stdout, Line("get_results", "Scan incomplete"))
                       /\ pc' = "exit"
                       /\ UNCHANGED <<stderr, exitcode>>
                  ELSE /\ pc' = IF args.csv THEN "get_results_csv" ELSE "get_results_fetch"
                       /\ UNCHANGED <<stdout, stderr, exitcode>>
    /\ UNCHANGED <<inputs, filters, targets, scanid, polls, content, idx, respmap,
                   events, eidx>>

\* get_results: the csv branch
get_results_csv ==
    /\ pc = "get_results_csv"
    /\ \E status \in {200, 500} :
          /\ net' = Append(net, Entry("get_results", "request_results_csv", "get",
                                      "scan/results/csv", scanid, status, "csv"))
          /\ IF status # 200 THEN Raise /\ UNCHANGED stdout
             ELSE /\ stdout' = Append(stdout, Line("get_results", "csv"))
                  /\ pc' = "exit"
                  /\ UNCHANGED <<stderr, exitcode>>
    /\ UNCHANGED <<inputs, filters, targets, scanid, polls, content, idx, respmap,
                   events, eidx>>

\* get_results: resp = requestor.request_results(...), then the serviceapi branch
get_results_fetch ==
    /\ pc = "get_results_fetch"
    /\ \E status \in {200, 500} :
          /\ net' = Append(net, Entry("get_results", "request_results", "get",
                                      "scan/results", scanid, status, "document"))
          /\ IF status # 200 THEN Raise /\ UNCHANGED <<content, idx, respmap>>
             ELSE /\ content' = scandoc
                  /\ idx' = 1
                  /\ respmap' = EmptyMap
                  /\ pc' = IF args.serviceapi = "None" THEN "get_results_output"
                           ELSE IF Details(scandoc) = <<>> THEN "execute_ownership"
                           ELSE "execute_indicators"
                  /\ UNCHANGED <<stderr, exitcode>>
    /\ UNCHANGED <<inputs, filters, targets, scanid, polls, events, eidx, stdout>>

ServiceStatuses == {200, 404}

\* requests raising instead of returning a response
TransportError == 0

\* execute_indicators, had a failed post ended the loop
execute_indicators_strict ==
    /\ pc = "execute_indicators"
    /\ \E status \in ServiceStatuses \cup {TransportError} :
          /\ net' = Append(net, Entry("execute_indicators", "requests.post", "post",
                                      "api/v1/indicator",
                                      Indicator(Details(content)[idx], content.results.zone),
                                      status, ""))
          /\ IF status # 200 THEN Raise /\ UNCHANGED idx
             ELSE /\ idx' = idx + 1
                  /\ pc' = IF idx = Len(Details(content)) THEN "execute_ownership"
                           ELSE "execute_indicators"
                  /\ UNCHANGED <<stderr, exitcode>>
    /\ UNCHANGED <<inputs, filters, targets, scanid, polls, content, respmap, events,
                   eidx, stdout>>

\* execute_indicators: one iteration of "for x in details"
execute_indicators ==
    /\ pc = "execute_indicators"
    /\ \E status \in ServiceStatuses \cup {TransportError} :
          /\ net' = Append(net, Entry("execute_indicators", "requests.post", "post",
                                      "api/v1/indicator",
                                      Indicator(Details(content)[idx], content.results.zone),
                                      status, ""))
          /\ IF status = TransportError THEN Raise /\ UNCHANGED idx
             ELSE /\ idx' = idx + 1
                  /\ pc' = IF idx = Len(Details(content)) THEN "execute_ownership"
                           ELSE "execute_indicators"
                  /\ stderr' = IF status # 200
                               THEN Append(stderr, Line("execute_indicators",
                                        "warning: serviceapi indicator post failed"))
                               ELSE stderr
                  /\ UNCHANGED exitcode
    /\ UNCHANGED <<inputs, filters, targets, scanid, polls, content, respmap, events,
                   eidx, stdout>>

Hostnames(doc) == {Details(doc)[k].hostname : k \in DOMAIN Details(doc)}

\* execute_ownership: one iteration of "for x in hosts"
execute_ownership ==
    /\ pc = "execute_ownership"
    /\ \E x \in Hostnames(content) \ DOMAIN respmap :
       \E status \in ServiceStatuses \cup {TransportError}, owner \in Owners :
          /\ net' = Append(net, Entry("execute_ownership", "requests.get", "get",
                                      "api/v1/owner/hostname", x, status,
                                      IF status = 200 THEN owner ELSE ""))
          /\ IF status = TransportError THEN Raise /\ UNCHANGED respmap
             ELSE /\ respmap' = [h \in DOMAIN respmap \cup {x} |->
                                    IF h # x THEN respmap[h]
                                    ELSE IF status = 200 THEN owner ELSE UnsetOwner]
                  /\ UNCHANGED <<pc, stderr, exitcode>>
    /\ UNCHANGED <<inputs, filters, targets, scanid, polls, content, idx, events,
                   eidx, stdout>>

\* execute_ownership: "for x in respmap", and execute() returning to get_results
annotate_owners ==
    /\ pc = "execute_ownership"
    /\ Hostnames(content) \subseteq DOMAIN respmap
    /\ content' = [content EXCEPT !.results.details = Annotated(@, respmap)]
    /\ pc' = "get_results_output"
    /\ UNCHANGED <<inputs, filters, targets, scanid, polls, idx, respmap, events,
                   eidx, net, stdout, stderr, exitcode>>

\* get_results: the raw print, or ScanAPIMozDef(resp, mozdef) and the stdout
\* branch of post()
get_results_output ==
    /\ pc = "get_results_output"
    /\ IF args.mozdef = "None"
       THEN /\ stdout' = Append(stdout, [by |-> "get_results", text |-> "json",
                                         data |-> content])
            /\ pc' = "exit"
            /\ UNCHANGED <<events, eidx>>
       ELSE /\ events' = ParsedEvents(content)
            /\ eidx' = 1
            /\ IF args.mozdef = "stdout"
               THEN /\ stdout' = Append(stdout, [by |-> "post", text |-> "events",
                                                 data |-> ParsedEvents(content)])
                    /\ pc' = "exit"
               ELSE /\ pc' = IF ParsedEvents(content) = <<>> THEN "exit" ELSE "post"
                    /\ UNCHANGED stdout
    /\ UNCHANGED <<inputs, filters, targets, scanid, polls, content, idx, respmap,
                   net, stderr, exitcode>>

\* ScanAPIMozDef.post: one iteration of "for x in self._events"
post ==
    /\ pc = "post"
    /\ \E status \in ServiceStatuses \cup {TransportError} :
          /\ net' = Append(net, Entry("post", "requests.post", "post", args.mozdef,
                                      events[eidx], status, ""))
          /\ IF status = TransportError THEN Raise /\ UNCHANGED eidx
             ELSE /\ eidx' = eidx + 1
                  /\ pc' = IF eidx = Len(events) THEN "exit" ELSE "post"
                  /\ UNCHANGED <<stderr, exitcode>>
    /\ UNCHANGED <<inputs, filters, targets, scanid, polls, content, idx, respmap,
                   events, stdout>>

\* domain(): sys.exit(0)
sys_exit ==
    /\ pc = "exit"
    /\ pc' = "done"
    /\ exitcode' = 0
    /\ UNCHANGED <<inputs, filters, targets, scanid, polls, content, idx, respmap,
                   events, eidx, net, stdout, stderr>>

Next ==
    \/ domain
    \/ get_policies
    \/ purge_scans
    \/ load_subnet_filters
    \/ filter_targets
    \/ run_scan
    \/ start_scan
    \/ follow
    \/ sleep
    \/ get_results
    \/ get_results_csv
    \/ get_results_fetch
    \/ execute_indicators
    \/ execute_ownership
    \/ annotate_owners
    \/ get_results_output
    \/ post
    \/ sys_exit

Spec == Init /\ [][Next]_vars

-----------------------------------------------------------------------------
(* The target filter on its own: a run from the point where domain() has   *)
(* read its target list, over every short target list and subnets file.   *)

Started ==
    /\ filters = <<>>
    /\ targets = <<>>
    /\ scanid = "None"
    /\ polls = 0
    /\ content = Document(<<>>)
    /\ idx = 1
    /\ respmap = EmptyMap
    /\ events = <<>>
    /\ eidx = 1
    /\ stdout = <<>>
    /\ stderr = <<>>
    /\ exitcode = -1

InitFilter ==
    /\ pc = "load_subnet_filters"
    /\ args \in {[NoArgs EXCEPT !.s = ts, !.p = "default", !.filter_subnets = fp] :
                    ts \in SeqsUpTo(TargetStrings, MaxTargets) \ {<<>>},
                    fp \in {"None", "subnets.txt"}}
    /\ env = [SCANAPI |-> TRUE, SERVICEAPIKEY |-> TRUE]
    /\ subnetsfile \in IF args.filter_subnets = "None" THEN {<<>>}
                       ELSE SeqsUpTo(FilterLines, MaxFilters)
    /\ scandoc = Document(<<>>)
    /\ net = <<>>
    /\ Started

NextFilter == load_subnet_filters \/ filter_targets

SpecFilter == InitFilter /\ [][NextFilter]_vars

-----------------------------------------------------------------------------
(* The indicator loop on its own: a run of get_results from the point      *)
(* where the document has been fetched, over every short vulnerability     *)
(* list.                                                                   *)

Risks == {"critical", "high", "medium", "low", "info"}

Vulnerabilities == {Vuln(n, r) : n \in {"A", "B"}, r \in Risks}

RichHosts(n) ==
    {HostResult("h1", "10.0.0.1", vs, c) :
        vs \in SeqsUpTo(Vulnerabilities, n), c \in BOOLEAN}

SeedHosts ==
    {HostResult("h2", "10.0.0.3", <<Vuln("A", "critical")>>, TRUE),
     HostResult("h2", "10.0.0.3", <<Vuln("B", "low")>>, TRUE)}

\* one host with any list of up to MaxVulns entries, or a seed host followed
\* by a host with any list of up to two entries
IndicatorDocs ==
    {Document(<<x>>) : x \in RichHosts(MaxVulns)}
    \cup {Document(<<w, x>>) : w \in SeedHosts, x \in RichHosts(2)}

InitIndicators ==
    /\ pc = "execute_indicators"
    /\ args = [NoArgs EXCEPT !.r = "scan0", !.serviceapi = "https://sapi"]
    /\ env = [SCANAPI |-> TRUE, SERVICEAPIKEY |-> TRUE]
    /\ subnetsfile = <<>>
    /\ scandoc \in IndicatorDocs
    /\ net = <<Entry("get_results", "request_scan_completed", "get", "scan/results",
                     "scan0", 200, TRUE),
               Entry("get_results", "request_results", "get", "scan/results",
                     "scan0", 200, "document")>>
    /\ content = scandoc
    /\ scanid = "scan0"
    /\ filters = <<>>
    /\ targets = <<>>
    /\ polls = 0
    /\ idx = 1
    /\ respmap = EmptyMap
    /\ events = <<>>
    /\ eidx = 1
    /\ stdout = <<>>
    /\ stderr = <<>>
    /\ exitcode = -1

NextIndicators == execute_indicators

SpecIndicators == InitIndicators /\ [][NextIndicators]_vars

-----------------------------------------------------------------------------
(* What the logs of a run say.                                             *)

\* the requests made by function `by`, in the order they were made
RequestsBy(by) == SelectIdx(net, {k \in DOMAIN net : net[k].by = by}, 1)

Called(call) == \E k \in DOMAIN net : net[k].call = call

Wrote(text) == \E k \in DOMAIN stdout : stdout[k].text = text

\* a completion poll of the follow loop, for the scan started, answered b
FollowPolled(b) ==
    \E k \in DOMAIN net :
        /\ net[k].by = "domain"
        /\ net[k].call = "request_scan_completed"
        /\ net[k].data = scanid
        /\ net[k].status = 200
        /\ net[k].body = b

\* the completion check of get_results answered b
ResultsChecked(b) ==
    \E k \in DOMAIN net :
        /\ net[k].by = "get_results"
        /\ net[k].call = "request_scan_completed"
        /\ net[k].status = 200
        /\ net[k].body = b

FollowMode == args.s # <<>> /\ args.f /\ ~args.P /\ args.r = "None" /\ args.D = "None"

InGetResults ==
    \/ pc \in {"get_results", "get_results_csv", "get_results_fetch",
               "execute_indicators", "execute_ownership", "get_results_output", "post"}
    \/ \E k \in DOMAIN net : net[k].by = "get_results"

\* C1: in follow mode get_results is not entered before a poll of the follow
\* loop has answered true, and while every poll has answered false the run is
\* in the loop (about to poll, or sleeping).
C1_FollowWaitsForCompletion ==
    FollowMode =>
        /\ InGetResults => FollowPolled(TRUE)
        /\ (FollowPolled(FALSE) /\ ~FollowPolled(TRUE) /\ pc # "aborted")
              => pc \in {"follow", "sleep"}

C1_Witness ==
    /\ FollowMode
    /\ pc = "get_results"
    /\ FollowPolled(FALSE)
    /\ FollowPolled(TRUE)

RawPrinted == Wrote("json")

Emitted == Wrote("events") \/ RequestsBy("post") # <<>>

Enriched == RequestsBy("execute_indicators") # <<>> \/ RequestsBy("execute_ownership") # <<>>

\* C2: a get_results that finds the scan incomplete writes the notice and
\* nothing else, fetches nothing, enriches and emits nothing and returns to a
\* normal exit; one that finds it complete prints the raw document or emits
\* events but never both, and in csv mode does neither and does not enrich.
C2_GetResultsOutputs ==
    /\ ResultsChecked(FALSE) =>
          /\ \A k \in DOMAIN stdout :
                stdout[k].by \in {"get_results", "post"} => stdout[k].text = "Scan incomplete"
          /\ Wrote("Scan incomplete")
          /\ ~Called("request_results")
          /\ ~Called("request_results_csv")
          /\ ~Enriched
          /\ ~Emitted
          /\ pc \in {"exit", "done"}
          /\ exitcode \in {-1, 0}
          /\ stderr = <<>>
    /\ ResultsChecked(TRUE) =>
          /\ ~(RawPrinted /\ Emitted)
          /\ args.csv => ~RawPrinted /\ ~Emitted /\ ~Enriched /\ ~Called("request_results")

C2_Witness ==
    /\ pc = "done"
    /\ exitcode = 0
    /\ ResultsChecked(FALSE)
    /\ args.serviceapi # "None"
    /\ args.mozdef = "https://mozdef"
    /\ stdout[Len(stdout)].text = "Scan incomplete"

\* C3: no DELETE scan/purge is sent with olderthan below 300.
C3_PurgeAtLeast300 ==
    \A k \in DOMAIN net : net[k].call = "purge_scans" => net[k].data >= 300

-----------------------------------------------------------------------------
(* The target filter.                                                      *)

Permuted(fs, p) == [k \in DOMAIN fs |-> fs[p[k]]]

WellFormed(fs) == \A k \in DOMAIN fs : NetworkOk(fs[k])

\* t is an IP literal inside at least one member of F
Excluded(t, fs) ==
    /\ IPAddress(t) # AddrFormatError
    /\ \E k \in DOMAIN fs : NetworkOk(fs[k]) /\ InNetwork(IPAddress(t), fs[k])

\* C4: once the targets are filtered, the targets removed are exactly the IP
\* literals inside at least one member of F, hostnames are all kept, and for
\* F made of subnets every reordering of F gives the same result.
C4_TargetFilter ==
    pc = "run_scan" =>
        /\ targets = SelectIdx(args.s, {k \in DOMAIN args.s : ~Excluded(args.s[k], filters)}, 1)
        /\ \A k \in DOMAIN args.s :
              IPAddress(args.s[k]) = AddrFormatError =>
                  \E j \in DOMAIN targets : targets[j] = args.s[k]
        /\ WellFormed(filters) =>
              \A p \in Perms(Len(filters)) :
                  FilteredTargets(args.s, Permuted(filters, p))
                      = [raised |-> FALSE, kept |-> targets]

C4_Witness ==
    /\ pc = "run_scan"
    /\ Len(filters) = 2
    /\ WellFormed(filters)
    /\ args.s = <<"0.0.0.3", "web.example.com">>
    /\ ~InNetwork(3, filters[1])
    /\ InNetwork(3, filters[2])
    /\ targets = <<"web.example.com">>

\* C5: a subnets file with a malformed entry is refused when it is loaded:
\* the run neither fails inside the filtering of a target nor goes on to the
\* scan.
C5_MalformedRefusedAtLoad ==
    ~WellFormed(subnetsfile) => pc \notin {"run_scan", "aborted"}

-----------------------------------------------------------------------------
(* The indicators.                                                         *)

IndicatorPosts == RequestsBy("execute_indicators")

Ordinal(risk) ==
    CASE risk = "critical" -> 4
      [] risk = "high" -> 3
      [] risk = "medium" -> 2
      [] risk = "low" -> 1
      [] OTHER -> 0

MaxOrdinal(vs) ==
    LET ords == {Ordinal(vs[k].risk) : k \in DOMAIN vs} \cup {0}
    IN  CHOOSE m \in ords : \A o \in ords : o <= m

Label(m) ==
    CASE m = 4 -> "maximum"
      [] m = 3 -> "high"
      [] m = 2 -> "medium"
      [] OTHER -> "low"

\* C6: the indicator posted for a host is "unknown" exactly when
\* credentialed_checks is false, and otherwise the label of the highest risk
\* among all entries of the host, repeated names included.
C6_LikelihoodIndicator ==
    \A j \in DOMAIN IndicatorPosts :
        LET x == Details(scandoc)[j]
            ind == IndicatorPosts[j].data
        IN  /\ ind.likelihood_indicator = "unknown" <=> ~x.credentialed_checks
            /\ x.credentialed_checks =>
                  ind.likelihood_indicator = Label(MaxOrdinal(x.vulnerabilities))

C6_Witness ==
    \E j \in DOMAIN IndicatorPosts :
        /\ Details(scandoc)[j].vulnerabilities = <<Vuln("A", "low"), Vuln("A", "critical")>>
        /\ Details(scandoc)[j].credentialed_checks
        /\ IndicatorPosts[j].data.likelihood_indicator = "maximum"

Names(vs) == {vs[k].name : k \in DOMAIN vs}

FirstEntry(vs, n) ==
    vs[CHOOSE k \in DOMAIN vs : vs[k].name = n /\ \A j \in 1..(k - 1) : vs[j].name # n]

\* the names whose first entry carries the risk
FirstWithRisk(vs, risk) == {n \in Names(vs) : FirstEntry(vs, n).risk = risk}

\* C7: the counts posted for a host are those of its own list alone: each
\* name is counted once, by its first entry and in that entry's bucket, or not
\* at all when that entry's risk has no bucket; the counts are not negative,
\* their sum does not exceed the number of names, and coverage is
\* credentialed_checks.
C7_DetailsCounts ==
    \A j \in DOMAIN IndicatorPosts :
        LET x == Details(scandoc)[j]
            vs == x.vulnerabilities
            d == IndicatorPosts[j].data.details
        IN  /\ d.maximum = Cardinality(FirstWithRisk(vs, "critical"))
            /\ d.high = Cardinality(FirstWithRisk(vs, "high"))
            /\ d.medium = Cardinality(FirstWithRisk(vs, "medium"))
            /\ d.low = Cardinality(FirstWithRisk(vs, "low"))
            /\ d.maximum >= 0 /\ d.high >= 0 /\ d.medium >= 0 /\ d.low >= 0
            /\ d.maximum + d.high + d.medium + d.low <= Cardinality(Names(vs))
            /\ d.coverage = x.credentialed_checks

C7_Witness ==
    /\ Len(IndicatorPosts) = 2
    /\ Details(scandoc)[1].vulnerabilities = <<Vuln("A", "critical")>>
    /\ IndicatorPosts[1].data.details.maximum = 1
    /\ Details(scandoc)[2].vulnerabilities = <<Vuln("A", "info"), Vuln("A", "high")>>
    /\ Details(scandoc)[2].credentialed_checks
    /\ IndicatorPosts[2].data.details
          = [maximum |-> 0, high |-> 0, medium |-> 0, low |-> 0, coverage |-> TRUE]

-----------------------------------------------------------------------------
(* Ownership, the order of the enrichment, and the events.                 *)

Fetched ==
    \E k \in DOMAIN net : net[k].call = "request_results" /\ net[k].status = 200

LastBy(by) == net # <<>> /\ net[Len(net)].by = by

\* execute() has returned to get_results
EnrichmentDone ==
    /\ args.serviceapi # "None"
    /\ Fetched
    /\ \/ pc \in {"get_results_output", "post", "exit", "done"}
       \/ pc = "aborted" /\ LastBy("post")

OwnerLookups == RequestsBy("execute_ownership")

\* the owner the lookup response e stands for
OwnerFrom(e) ==
    IF e.status = 200
    THEN [operator |-> e.body.operator, team |-> e.body.team, v2bkey |-> e.body.triagekey]
    ELSE [operator |-> "unset", team |-> "unset", v2bkey |-> "unset-unset"]

\* C8: after execute_ownership every distinct hostname was looked up exactly
\* once, every entry carries the owner its hostname's lookup stands for (the
\* response's on 200, the unset one on any other status), nothing else of an
\* entry has changed, and a lookup answered with a status never ends the run.
C8_OwnershipAnnotation ==
    /\ EnrichmentDone =>
          /\ \A h \in Hostnames(scandoc) :
                Cardinality({k \in DOMAIN OwnerLookups : OwnerLookups[k].data = h}) = 1
          /\ Len(OwnerLookups) = Cardinality(Hostnames(scandoc))
          /\ Len(Details(content)) = Len(Details(scandoc))
          /\ \A y \in DOMAIN Details(scandoc) :
                LET before == Details(scandoc)[y]
                    after == Details(content)[y]
                    e == OwnerLookups[CHOOSE k \in DOMAIN OwnerLookups :
                                         OwnerLookups[k].data = before.hostname]
                IN  /\ DOMAIN after = DOMAIN before \cup {"owner"}
                    /\ after.owner = OwnerFrom(e)
                    /\ \A f \in DOMAIN before : after[f] = before[f]
    /\ (pc = "aborted" /\ LastBy("execute_ownership"))
          => net[Len(net)].status = TransportError

C8_Witness ==
    /\ EnrichmentDone
    /\ Len(Details(content)) = 2
    /\ Details(content)[1].hostname = "h1"
    /\ Details(content)[2].hostname = "h1"
    /\ Details(content)[1].ipaddress # Details(content)[2].ipaddress
    /\ Details(content)[1].owner = [operator |-> "opsA", team |-> "teamA", v2bkey |-> "opsA-teamA"]
    /\ Details(content)[2].owner = Details(content)[1].owner

Warnings ==
    SelectIdx(stderr, {k \in DOMAIN stderr : stderr[k].by = "execute_indicators"}, 1)

RefusedPosts ==
    {k \in DOMAIN IndicatorPosts : IndicatorPosts[k].status \notin {200, TransportError}}

\* C9: whatever statuses the indicator endpoint answers, the posts are the
\* indicators of the host entries in document order, a status other than 200
\* costs one warning and nothing else, all n posts are made before the first
\* ownership lookup, and the ownership annotation follows.
C9_IndicatorPosts ==
    /\ Len(IndicatorPosts) <= Len(Details(scandoc))
    /\ \A j \in DOMAIN IndicatorPosts :
          IndicatorPosts[j].data = Indicator(Details(scandoc)[j], scandoc.results.zone)
    /\ \A i, j \in DOMAIN net :
          (net[i].by = "execute_indicators" /\ net[j].by = "execute_ownership") => i < j
    /\ Len(Warnings) = Cardinality(RefusedPosts)
    /\ (pc = "aborted" /\ LastBy("execute_indicators"))
          => net[Len(net)].status = TransportError
    /\ (pc = "execute_ownership" \/ OwnerLookups # <<>> \/ EnrichmentDone) =>
          Len(IndicatorPosts) = Len(Details(scandoc))
    /\ EnrichmentDone =>
          \A y \in DOMAIN Details(content) : "owner" \in DOMAIN Details(content)[y]

C9_Witness ==
    /\ EnrichmentDone
    /\ Len(IndicatorPosts) = 2
    /\ IndicatorPosts[1].status = 404
    /\ IndicatorPosts[2].status = 200
    /\ Len(OwnerLookups) = 2
    /\ pc = "done"

EventPosts == RequestsBy("post")

EventsWritten == {k \in DOMAIN stdout : stdout[k].by = "post"}

\* ScanAPIMozDef(resp, mozdef).post() has been entered
Emitting ==
    /\ args.mozdef # "None"
    /\ Fetched
    /\ \/ pc \in {"post", "exit", "done"}
       \/ pc = "aborted" /\ LastBy("post")

\* C10: the events are one per host entry, in the order of the entries; to
\* stdout they are written once, whole, and nothing is posted; otherwise they
\* are posted one request each in that order, and a post that fails in
\* transport is the last one made.
C10_EventEmission ==
    Emitting =>
        /\ Len(events) = Len(Details(content))
        /\ \A k \in DOMAIN events :
              /\ events[k].asset.hostname = Details(content)[k].hostname
              /\ events[k].asset.ipaddress = Details(content)[k].ipaddress
              /\ events[k].vulnerabilities = Details(content)[k].vulnerabilities
              /\ events[k].credentialed_checks = Details(content)[k].credentialed_checks
        /\ Len(Details(content)) = Len(Details(scandoc))
        /\ args.mozdef = "stdout" =>
              /\ EventPosts = <<>>
              /\ Cardinality(EventsWritten) = 1
              /\ \A k \in EventsWritten : stdout[k].data = events
        /\ args.mozdef # "stdout" =>
              /\ EventsWritten = {}
              /\ Len(EventPosts) <= Len(events)
              /\ \A j \in DOMAIN EventPosts :
                    /\ EventPosts[j].data = events[j]
                    /\ EventPosts[j].ep = args.mozdef
                    /\ EventPosts[j].status = TransportError
                          => (j = Len(EventPosts) /\ pc = "aborted")
              /\ pc \in {"exit", "done"} => Len(EventPosts) = Len(events)

C10_Witness ==
    /\ Emitting
    /\ args.mozdef = "https://mozdef"
    /\ Len(events) = 2
    /\ events[1].asset.hostname = "h1"
    /\ events[2].asset.hostname = "h1"
    /\ Len(EventPosts) = 1
    /\ EventPosts[1].status = TransportError
    /\ pc = "aborted"

====
